---- MODULE Spec2Model ----
(***************************************************************************)
(* harpseal: the plugin registry and scheduler (harpseal/plugin.py) and    *)
(* the web query layer (harpseal/web/handler.py, harpseal/web/__init__.py) *)
(* as one state machine.                                                   *)
(*                                                                         *)
(* Time is counted in ticks of 1/Resolution second.  datetime.now() is the *)
(* wall clock: every read of it is an input drawn from Times, so it may    *)
(* stand still or step back between two reads.                             *)
(*                                                                         *)
(* PeriodicTask, StrictDict (harpseal.classes), make_model                 *)
(* (harpseal.models), harpseal.utils.datetime and Response                 *)
(* (harpseal.web.classes) are imported by the sources but are not part of  *)
(* them; their definitions below follow the written specification and say  *)
(* so.                                                                     *)
(***************************************************************************)
EXTENDS Integers, Sequences, FiniteSets, TLC

VARIABLES
    config,     \* config['plugins']: the configured plugin identifiers
    phase,      \* where the application start-up stands
    plugins,    \* Harpseal.plugins: the tuple of Plugin instances
    tasks,      \* Harpseal.tasks: one PeriodicTask per started plugin
    store,      \* the sample store: model name -> persisted records
    handler,    \* the web server: its key, its whitelist, and its Handler
                \* (the .plugins dict) once the server runs
    response    \* what the last step answered, when it was a request

vars == <<config, phase, plugins, tasks, store, handler, response>>

(***************************************************************************)
(* Bounds of the model.                                                    *)
(***************************************************************************)
MaxPlugins == 2     \* longest configured plugin list
MaxTime == 2        \* the wall clock reads 0..MaxTime ticks
MaxSamples == 2     \* most records persisted per model

Resolution == 2     \* ticks per second
Times == 0..MaxTime

\* Python's None where a datetime is expected.
None == -1

(***************************************************************************)
(* The plugin modules that can be configured.  "ghost" names a module that *)
(* cannot be imported; "sync" declares provider without the coroutine      *)
(* decorator; "base" does not override provider; "anon" leaves name and    *)
(* description at the class defaults.                                      *)
(***************************************************************************)
Order == <<"disk", "sync", "ghost", "base", "anon">>

Ids == {Order[i] : i \in DOMAIN Order}

Resolvable(id) == id # "ghost"

NameOf(id) == IF id = "anon" THEN "" ELSE id

DescriptionOf(id) == IF id = "anon" THEN "" ELSE "about"

IsCoroutineFunction(id) == id # "sync"

Overridden(id) == id # "base"

\* What the plugin's init() declares: self.fields, in declaration order.
FieldsOf(id) ==
    IF id = "disk"
    THEN << [name |-> "usage",
             metrics |-> << <<"free", "int">>, <<"used", "int">> >>],
            [name |-> "io",
             metrics |-> << <<"read", "float">> >>] >>
    ELSE << >>

\* What the plugin's init() declares: self.field_types.  "disk" declares no
\* hint for its group "usage".
FieldTypesOf(id) ==
    IF id = "disk" THEN [io |-> "stack"] ELSE << >>

\* field_types[k] of the defaultdict: the declared hint, else 'line'.  (The
\* lookup of a missing key also stores 'line' under it, which no later
\* lookup can tell from the key being missing; field_types is never
\* iterated.)
HintOf(field_types, k) ==
    IF k \in DOMAIN field_types THEN field_types[k] ELSE "line"

GroupNames(fields) == [i \in DOMAIN fields |-> fields[i].name]

\* A provider's result: None, or a dict of one filled form per field group.
NoData == [none |-> TRUE, groups |-> << >>]

EmptyData == [none |-> FALSE, groups |-> << >>]

DiskData ==
    [none |-> FALSE,
     groups |-> [usage |-> [free |-> 500, used |-> 1500],
                 io |-> [read |-> 7]]]

\* The results provider() of a plugin module can return.
ProviderResults(id) ==
    CASE id = "disk" -> {NoData, DiskData}
      [] id = "anon" -> {NoData, EmptyData}
      [] OTHER -> {}

\* Whether provider() of a plugin module can raise.
ProviderRaises(id) == id \in {"disk", "anon"}

(***************************************************************************)
(* The sample store.  A model is named after the plugin and the group.     *)
(***************************************************************************)
ModelName(name, group) == <<name, group>>

AllModels ==
    UNION { { ModelName(NameOf(id), FieldsOf(id)[i].name) :
              i \in DOMAIN FieldsOf(id) } : id \in Ids }

(***************************************************************************)
(* Plugin                                                                  *)
(***************************************************************************)
\* __init__ leaving a result behind.
NewPluginWithResult(id) ==
    [cls |-> id,
     name |-> NameOf(id),
     description |-> DescriptionOf(id),
     every |-> 1,
     fields |-> FieldsOf(id),
     field_types |-> FieldTypesOf(id),
     last_executed_at |-> None,
     last_executed_result |-> "False"]

NewPlugin(id) ==
    [cls |-> id,
     name |-> NameOf(id),
     description |-> DescriptionOf(id),
     every |-> 1,
     fields |-> FieldsOf(id),
     field_types |-> FieldTypesOf(id),
     last_executed_at |-> None,
     last_executed_result |-> "None"]

\* StrictDict(fields): a container with one slot per declared metric, of the
\* declared kind and not yet set.
StrictDict(metrics) ==
    [n \in {metrics[i][1] : i \in DOMAIN metrics} |->
        [kind |-> metrics[CHOOSE i \in DOMAIN metrics : metrics[i][1] = n][2],
         set |-> FALSE]]

\* data_form: a fresh container per field group.
data_form(plugin) ==
    [k \in {plugin.fields[i].name : i \in DOMAIN plugin.fields} |->
        StrictDict(plugin.fields[CHOOSE i \in DOMAIN plugin.fields :
                                    plugin.fields[i].name = k].metrics)]

\* execute stamping the time and turning the metrics of every group round.
ExecuteBeginReorders(plugin, now) ==
    [plugin EXCEPT
        !.last_executed_at = now,
        !.fields = [i \in DOMAIN @ |->
                        [@[i] EXCEPT !.metrics =
                            [j \in DOMAIN @ |-> @[Len(@) + 1 - j]]]]]

\* execute, up to the call of the provider.
ExecuteBegin(plugin, now) == [plugin EXCEPT !.last_executed_at = now]

\* The except branch without its assignment.
ExecuteExceptForgets(plugin) == plugin

\* execute, the except branch: the provider raised.
ExecuteExcept(plugin) == [plugin EXCEPT !.last_executed_result = "False"]

\* The else branch recording a failure.
ExecuteElseFails(plugin) == [plugin EXCEPT !.last_executed_result = "False"]

\* execute, the else branch: the provider returned.
ExecuteElse(plugin) == [plugin EXCEPT !.last_executed_result = "True"]

\* properties: ValueError when name or description is empty, else the
\* identity of the instance.
properties(plugin) ==
    IF plugin.name = "" \/ plugin.description = ""
    THEN [raised |-> "ValueError"]
    ELSE [raised |-> "",
          name |-> plugin.name,
          description |-> plugin.description,
          priority |-> 0,
          every |-> plugin.every]

(***************************************************************************)
(* PluginMixin                                                             *)
(***************************************************************************)
RECURSIVE RegisterLoop(_, _)
RegisterLoop(cfg, acc) ==
    IF cfg = << >> THEN [plugins |-> acc, raised |-> FALSE]
    ELSE IF ~Resolvable(Head(cfg)) THEN [plugins |-> acc, raised |-> TRUE]
    ELSE RegisterLoop(Tail(cfg), Append(acc, NewPlugin(Head(cfg))))

\* register_plugins: the plugins tuple it leaves and whether it raised.
register_plugins(cfg) == RegisterLoop(cfg, << >>)

NewTask(p) ==
    [plugin |-> p,
     pc |-> "idle",
     outcome |-> "none",
     assigned |-> 0,
     persisted |-> 0,
     data |-> NoData,
     created_at |-> None,
     pending |-> << >>]

\* run_plugins starting every plugin twice.
run_plugins_twice(ps) ==
    [t \in 1..(2 * Len(ps)) |-> NewTask(((t - 1) % Len(ps)) + 1)]

\* run_plugins leaving out the first plugin.
run_plugins_skip_first(ps) == [p \in DOMAIN ps \ {1} |-> NewTask(p)]

\* run_plugins: one started task per registered plugin.
run_plugins(ps) == [p \in DOMAIN ps |-> NewTask(p)]

(***************************************************************************)
(* Start-up                                                                *)
(***************************************************************************)
\* The configured lists: up to MaxPlugins identifiers, each at most once, in
\* the order of Order (so that plugins are listed both before and after the
\* module that cannot be imported).
Configs ==
    { cfg \in UNION { [1..n -> Ids] : n \in 0..MaxPlugins } :
        \A i, j \in DOMAIN cfg :
            i < j => \E a, b \in DOMAIN Order :
                        a < b /\ Order[a] = cfg[i] /\ Order[b] = cfg[j] }

NoResponse == [kind |-> "none"]

\* The web server before execute(): no Handler yet; config['server'] with no
\* key and no allowed network.
NoHandler ==
    [started |-> FALSE, plugins |-> << >>, key |-> "", whitelist |-> {}]

Init ==
    /\ config \in Configs
    /\ phase = "configured"
    /\ plugins = << >>
    /\ tasks = << >>
    /\ store = [m \in AllModels |-> << >>]
    /\ handler = NoHandler
    /\ response = NoResponse

RegisterPlugins ==
    /\ phase = "configured"
    /\ LET r == register_plugins(config) IN
        /\ plugins' = r.plugins
        /\ phase' = IF r.raised THEN "aborted" ELSE "registered"
    /\ UNCHANGED <<config, tasks, store, handler, response>>

RunPlugins ==
    /\ phase = "registered"
    /\ tasks' = run_plugins(plugins)
    /\ phase' = "running"
    /\ UNCHANGED <<config, plugins, store, handler, response>>

(***************************************************************************)
(* One cycle of a task: execute up to the provider, the provider's         *)
(* outcome, then one persist per field group.                              *)
(***************************************************************************)
ModelsOf(plugin) ==
    { ModelName(plugin.name, plugin.fields[i].name) : i \in DOMAIN plugin.fields }

HasRoom(plugin) == \A m \in ModelsOf(plugin) : Len(store[m]) < MaxSamples

ExecuteStart(t) ==
    /\ phase = "running"
    /\ t \in DOMAIN tasks
    /\ tasks[t].pc = "idle"
    /\ LET p == tasks[t].plugin IN
        IF ~IsCoroutineFunction(plugins[p].cls)
        THEN \* TypeError leaves execute before anything is recorded
             /\ \E next \in {"idle", "crashed"} :
                    tasks' = [tasks EXCEPT ![t] =
                                [@ EXCEPT !.pc = next, !.outcome = "rejected",
                                          !.assigned = 0, !.persisted = 0]]
             /\ UNCHANGED plugins
        ELSE IF ~Overridden(plugins[p].cls)
        THEN \* Plugin.provider raises before it ever suspends
             /\ \E now \in Times :
                    plugins' = [plugins EXCEPT ![p] =
                                    ExecuteExcept(ExecuteBegin(@, now))]
             /\ tasks' = [tasks EXCEPT ![t] =
                            [@ EXCEPT !.outcome = "raised",
                                      !.assigned = 1, !.persisted = 0]]
        ELSE /\ \E now \in Times :
                    plugins' = [plugins EXCEPT ![p] = ExecuteBegin(@, now)]
             /\ tasks' = [tasks EXCEPT ![t] =
                            [@ EXCEPT !.pc = "awaiting", !.outcome = "running",
                                      !.assigned = 1, !.persisted = 0]]
    /\ UNCHANGED <<config, phase, store, handler, response>>

ProviderRaise(t) ==
    /\ t \in DOMAIN tasks
    /\ tasks[t].pc = "awaiting"
    /\ LET p == tasks[t].plugin IN
        /\ ProviderRaises(plugins[p].cls)
        /\ plugins' = [plugins EXCEPT ![p] = ExecuteExcept(@)]
    /\ tasks' = [tasks EXCEPT ![t] = [@ EXCEPT !.pc = "idle", !.outcome = "raised"]]
    /\ UNCHANGED <<config, phase, store, handler, response>>

ProviderReturn(t) ==
    /\ t \in DOMAIN tasks
    /\ tasks[t].pc = "awaiting"
    /\ LET p == tasks[t].plugin IN
        /\ \E data \in ProviderResults(plugins[p].cls) :
            \* the provider fills the containers of self.data_form()
            /\ ~data.none =>
                    /\ DOMAIN data.groups = DOMAIN data_form(plugins[p])
                    /\ \A g \in DOMAIN data.groups :
                        DOMAIN data.groups[g] = DOMAIN data_form(plugins[p])[g]
            /\ DOMAIN data.groups # {} => HasRoom(plugins[p])
            /\ IF DOMAIN data.groups = {}
               THEN tasks' = [tasks EXCEPT ![t] =
                                [@ EXCEPT !.pc = "idle", !.outcome = "nodata"]]
               ELSE \E now \in Times :
                        tasks' = [tasks EXCEPT ![t] =
                                    [@ EXCEPT !.pc = "persisting",
                                              !.outcome = "data",
                                              !.data = data,
                                              !.created_at = now,
                                              !.pending = GroupNames(plugins[p].fields)]]
        /\ plugins' = [plugins EXCEPT ![p] = ExecuteElse(@)]
    /\ UNCHANGED <<config, phase, store, handler, response>>

Persist(t) ==
    /\ t \in DOMAIN tasks
    /\ tasks[t].pc = "persisting"
    /\ LET task == tasks[t]
           g == Head(task.pending)
           m == ModelName(plugins[task.plugin].name, g)
           rest == Tail(task.pending)
       IN
        /\ store' = [store EXCEPT ![m] =
                        Append(@, [created_at |-> task.created_at,
                                   items |-> task.data.groups[g]])]
        /\ tasks' = [tasks EXCEPT ![t] =
                        IF rest = << >>
                        THEN [@ EXCEPT !.pc = "idle", !.persisted = @ + 1,
                                       !.data = NoData, !.created_at = None,
                                       !.pending = << >>]
                        ELSE [@ EXCEPT !.persisted = @ + 1, !.pending = rest]]
    /\ UNCHANGED <<config, phase, plugins, handler, response>>

SchedNext ==
    \/ RegisterPlugins
    \/ RunPlugins
    \/ \E t \in 1..MaxPlugins : ExecuteStart(t)
    \/ \E t \in 1..MaxPlugins : ProviderRaise(t)
    \/ \E t \in 1..MaxPlugins : ProviderReturn(t)
    \/ \E t \in 1..MaxPlugins : Persist(t)

Next == SchedNext

\* The registry, the scheduler and the store.
Spec == Init /\ [][Next]_vars

(***************************************************************************)
(* The scheduler with the event loop's fairness: a plugin whose provider   *)
(* always comes back ("disk") has its timer fire and its steps taken.  No  *)
(* other plugin is promised anything: it may stall for ever at any point.  *)
(***************************************************************************)
Fast(id) == id = "disk"

\* The next step of a task, whichever it is.
TaskStep(t) ==
    ExecuteStart(t) \/ ProviderRaise(t) \/ ProviderReturn(t) \/ Persist(t)

FastStep(t) ==
    /\ t \in DOMAIN tasks
    /\ Fast(plugins[tasks[t].plugin].cls)
    /\ TaskStep(t)

FairSpec ==
    Init /\ [][Next]_vars /\ \A t \in 1..MaxPlugins : WF_vars(FastStep(t))

(***************************************************************************)
(* Claims about the scheduler.                                             *)
(***************************************************************************)
Finished == {"data", "nodata", "raised", "rejected"}

PluginOf(t) == plugins[tasks[t].plugin]

\* C1: in every cycle of every plugin last_executed_at is assigned exactly
\* once, whatever the cycle's outcome: data, no data, a raising provider, or
\* a provider rejected as not asynchronous.
C1_StampedOncePerCycle ==
    \A t \in DOMAIN tasks :
        tasks[t].outcome \in Finished => tasks[t].assigned = 1

\* C2: when the provider raises (the base provider included), execute does
\* not pass the exception on: last_executed_result is false, no data is
\* handed back, nothing is persisted in the cycle, and the task is ready
\* for its next cycle.
C2_ProviderFailureIsolated ==
    \A t \in DOMAIN tasks :
        tasks[t].outcome = "raised" =>
            /\ PluginOf(t).last_executed_result = "False"
            /\ tasks[t].data = NoData
            /\ tasks[t].persisted = 0
            /\ tasks[t].pc = "idle"
            /\ ENABLED ExecuteStart(t)

C2_Witness ==
    \E t \in DOMAIN tasks :
        /\ tasks[t].outcome = "raised"
        /\ PluginOf(t).cls = "base"
        /\ PluginOf(t).last_executed_result = "False"

\* C4: the cycles of one plugin are strictly sequential: at no time are two
\* executions of the same plugin in flight.
C4_CyclesSequential ==
    \A p \in DOMAIN plugins :
        Cardinality({ t \in DOMAIN tasks :
                        /\ tasks[t].plugin = p
                        /\ tasks[t].pc \in {"awaiting", "persisting"} }) <= 1

C4_Witness ==
    \E t \in DOMAIN tasks :
        /\ tasks[t].pc = "awaiting"
        /\ PluginOf(t).last_executed_result # "None"

\* C5: a plugin whose provider is synchronous is rejected at registration:
\* it is never among the registered plugins, never given a task, and no
\* cycle of it ever starts.
C5_SyncRejectedAtRegistration ==
    /\ \A p \in DOMAIN plugins : IsCoroutineFunction(plugins[p].cls)
    /\ \A t \in DOMAIN tasks : IsCoroutineFunction(PluginOf(t).cls)

\* C6: when the provider returns without raising but with no data (None or
\* an empty dict), last_executed_result is true and nothing is persisted in
\* the cycle.
C6_NoDataIsSuccess ==
    \A t \in DOMAIN tasks :
        tasks[t].outcome = "nodata" =>
            /\ PluginOf(t).last_executed_result = "True"
            /\ tasks[t].persisted = 0
            /\ tasks[t].pc = "idle"

C6_Witness ==
    \E t \in DOMAIN tasks :
        /\ tasks[t].outcome = "nodata"
        /\ PluginOf(t).last_executed_result = "True"
        /\ PluginOf(t).cls = "anon"

\* C3: isolation between plugins.  In every reachable state, whatever the
\* other plugins are doing (stalled in a provider, failed, crashed), every
\* started plugin with an asynchronous provider has its own task and the
\* next step of its cycle can be taken.
C3_NeverBlocked ==
    \A p \in DOMAIN plugins :
        (phase = "running" /\ IsCoroutineFunction(plugins[p].cls)) =>
            \E t \in DOMAIN tasks : tasks[t].plugin = p /\ ENABLED TaskStep(t)

C3_Witness ==
    \E a, b \in DOMAIN tasks :
        /\ a # b
        /\ tasks[a].pc = "awaiting"
        /\ PluginOf(a).last_executed_result = "False"
        /\ tasks[b].pc = "idle"
        /\ tasks[b].outcome = "data"
        /\ tasks[b].persisted > 0

\* C3, as progress under FairSpec: every cycle of a plugin with a fast
\* provider starts and completes, again and again, while the other plugins
\* are promised no step at all.
Started(p) ==
    /\ phase = "running"
    /\ p \in DOMAIN plugins
    /\ Fast(plugins[p].cls)

InCycle(p) ==
    /\ Started(p)
    /\ \E t \in DOMAIN tasks :
        tasks[t].plugin = p /\ tasks[t].pc \in {"awaiting", "persisting"}

CycleDone(p) ==
    /\ Started(p)
    /\ \E t \in DOMAIN tasks :
        /\ tasks[t].plugin = p
        /\ tasks[t].pc = "idle"
        /\ tasks[t].outcome \in {"data", "nodata", "raised"}

FastPluginKeepsCycling ==
    \A p \in 1..MaxPlugins :
        /\ Started(p) ~> InCycle(p)
        /\ InCycle(p) ~> CycleDone(p)
        /\ CycleDone(p) ~> InCycle(p)

(***************************************************************************)
(* harpseal.utils.datetime                                                 *)
(***************************************************************************)
AgoDays == 7

Days(n) == n * 24 * 60 * 60 * Resolution

\* The date strings of a request: the text naming the tick t.
DateText(t) == ToString(t)

CanParse(text) == \E t \in Times : DateText(t) = text

\* parse: the datetime a recognised date string names; it raises on others.
parse(text) == CHOOSE t \in Times : DateText(t) = text

\* ago(days=n), with the clock reading now.
ago(n, now) == now - Days(n)

\* unixtime: a datetime as whole epoch seconds.
unixtime(dt) == dt \div Resolution

(***************************************************************************)
(* The store's query, models[k].objects(created_at__gte, created_at__lte): *)
(* the records inside the window, both ends included, ascending by         *)
(* created_at.  An absent bound does not restrict.                         *)
(***************************************************************************)
RECURSIVE InsertByCreated(_, _)
InsertByCreated(sorted, rec) ==
    IF sorted = << >> THEN <<rec>>
    ELSE IF rec.created_at < Head(sorted).created_at
         THEN <<rec>> \o sorted
         ELSE <<Head(sorted)>> \o InsertByCreated(Tail(sorted), rec)

RECURSIVE SortByCreated(_)
SortByCreated(recs) ==
    IF recs = << >> THEN << >>
    ELSE InsertByCreated(SortByCreated(SubSeq(recs, 1, Len(recs) - 1)),
                         recs[Len(recs)])

InWindow(rec, gte, lte) ==
    /\ gte # None => gte <= rec.created_at
    /\ lte # None => rec.created_at <= lte

objects(model, gte, lte) ==
    LET Keep(rec) == InWindow(rec, gte, lte)
    IN SortByCreated(SelectSeq(store[model], Keep))

(***************************************************************************)
(* Handler                                                                 *)
(***************************************************************************)
\* Handler.__init__: {plugin.name: plugin for plugin in plugins}; a later
\* plugin of the same name replaces an earlier one.
HandlerPlugins(ps) ==
    [n \in {ps[i].name : i \in DOMAIN ps} |->
        CHOOSE i \in DOMAIN ps :
            /\ ps[i].name = n
            /\ \A j \in DOMAIN ps : ps[j].name = n => j <= i]

\* A query-string parameter: missing, or present with a text.
Absent == [present |-> FALSE, text |-> ""]

Given(text) == [present |-> TRUE, text |-> text]

\* Python's truth of req.GET.get(k, None).
Truthy(param) == param.present /\ param.text # ""

raise_error(reason) == [ok |-> FALSE, reason |-> reason]

\* parse_comptarget leaving a missing bound unresolved.
parse_comptarget_no_default(gte, lte, now1, now2) ==
    IF \/ Truthy(gte) /\ ~CanParse(gte.text)
       \/ Truthy(lte) /\ ~CanParse(lte.text)
    THEN <<None, None>>
    ELSE << IF Truthy(gte) THEN parse(gte.text) ELSE None,
            IF Truthy(lte) THEN parse(lte.text) ELSE None >>

\* parse_comptarget: (gte, lte); now1 and now2 are the clock as ago() and
\* datetime.now() read it.
parse_comptarget(gte, lte, now1, now2) ==
    IF \/ Truthy(gte) /\ ~CanParse(gte.text)
       \/ Truthy(lte) /\ ~CanParse(lte.text)
    THEN <<None, None>>
    ELSE << IF Truthy(gte) THEN parse(gte.text) ELSE ago(AgoDays, now1),
            IF Truthy(lte) THEN parse(lte.text) ELSE now2 >>

\* get_plugin_list(withdetails=True)
get_plugin_list ==
    [n \in DOMAIN handler.plugins |->
        LET item == plugins[handler.plugins[n]] IN
        [description |-> item.description,
         every |-> item.every,
         lastExecutedAt |-> IF item.last_executed_at # None
                            THEN unixtime(item.last_executed_at) ELSE None,
         lastExecutedResult |-> item.last_executed_result]]

\* The row with its items in the reverse of the metrics' order.
RowMetricsReversed(record, metrics) ==
    <<unixtime(record.created_at)>> \o
        [i \in DOMAIN metrics |->
            record.items[metrics[Len(metrics) + 1 - i][1]]]

\* One row of a field group: the record's epoch seconds, then its items in
\* the order of the group's metrics.
Row(record, metrics) ==
    <<unixtime(record.created_at)>> \o
        [i \in DOMAIN metrics |-> record.items[metrics[i][1]]]

\* The loop putting each row in front of the earlier ones.
RowsNewestFirst(records, metrics) ==
    [i \in DOMAIN records |-> Row(records[Len(records) + 1 - i], metrics)]

\* The loop over the records of one field group, appending one row each.
Rows(records, metrics) == [i \in DOMAIN records |-> Row(records[i], metrics)]

\* The query leaving out created_at__lte.
LogsWindowNoLte(gte, lte) == <<gte, None>>

\* The window get_plugin_logs hands to the store.
LogsWindow(gte, lte) == <<gte, lte>>

\* get_plugin_logs: KeyError for a name that is not registered, else the
\* chart data of every field group of the plugin.
get_plugin_logs(name, gte, lte) ==
    IF name \notin DOMAIN handler.plugins
    THEN [raised |-> "KeyError", data |-> << >>, reads |-> 0]
    ELSE LET plugin == plugins[handler.plugins[name]]
             w == LogsWindow(gte, lte)
             Fields(i) == plugin.fields[i]
             idx(k) == CHOOSE i \in DOMAIN plugin.fields : Fields(i).name = k
         IN [raised |-> "",
             data |-> [k \in {Fields(i).name : i \in DOMAIN plugin.fields} |->
                        [type |-> HintOf(plugin.field_types, k),
                         legends |-> <<"created">> \o
                            [j \in DOMAIN Fields(idx(k)).metrics |->
                                Fields(idx(k)).metrics[j][1]],
                         data |-> Rows(objects(ModelName(plugin.name, k), w[1], w[2]),
                                       Fields(idx(k)).metrics)]],
             reads |-> Len(plugin.fields)]

\* The store queries of one get_plugin_logs per name.
RECURSIVE ReadsOf(_, _, _)
ReadsOf(names, gte, lte) ==
    IF names = {} THEN 0
    ELSE LET n == CHOOSE x \in names : TRUE
         IN get_plugin_logs(n, gte, lte).reads + ReadsOf(names \ {n}, gte, lte)

\* The decorator without its check.
plugin_required_unchecked(name) == TRUE

\* plugin_required: whether the decorated handler is entered.
plugin_required(name) == name \in DOMAIN handler.plugins

\* GET /plugins/{name}
plugin_handler(name, gte, lte, now1, now2) ==
    LET req == [route |-> "plugin", name |-> name, gte |-> gte, lte |-> lte]
        w == parse_comptarget(gte, lte, now1, now2)
        logs == get_plugin_logs(name, w[1], w[2])
    IN
    IF ~plugin_required(name)
    THEN [kind |-> "error", req |-> req, reads |-> 0,
          body |-> raise_error("Plugin does not exist.")]
    ELSE IF w[1] = None \/ w[2] = None
    THEN [kind |-> "error", req |-> req, reads |-> 0,
          body |-> raise_error("The given datetime cannot be parsed.")]
    ELSE IF name \notin DOMAIN get_plugin_list
    THEN [kind |-> "crash", req |-> req, reads |-> 0, body |-> "KeyError"]
    ELSE [kind |-> "plugin", req |-> req, reads |-> logs.reads, window |-> w,
          clock |-> <<now1, now2>>,
          body |-> LET plugin == get_plugin_list[name] IN
                   [name |-> name,
                    data |-> logs.data,
                    description |-> plugin.description,
                    every |-> plugin.every,
                    lastExecutedAt |-> plugin.lastExecutedAt,
                    lastExecutedResult |-> plugin.lastExecutedResult]]

\* GET /plugins/all
plugins_handler(gte, lte, now1, now2) ==
    LET req == [route |-> "all", name |-> "", gte |-> gte, lte |-> lte]
        w == parse_comptarget(gte, lte, now1, now2)
    IN
    IF w[1] = None \/ w[2] = None
    THEN [kind |-> "error", req |-> req, reads |-> 0,
          body |-> raise_error("The given datetime cannot be parsed.")]
    ELSE [kind |-> "all", req |-> req, window |-> w,
          clock |-> <<now1, now2>>,
          reads |-> ReadsOf(DOMAIN get_plugin_list, w[1], w[2]),
          body |->
            [data |->
                [n \in DOMAIN get_plugin_list |->
                    LET details == get_plugin_list[n] IN
                    [description |-> details.description,
                     every |-> details.every,
                     lastExecutedAt |-> details.lastExecutedAt,
                     lastExecutedResult |-> details.lastExecutedResult,
                     data |-> get_plugin_logs(n, w[1], w[2]).data]]]]

\* GET /plugins/list
plugin_list_handler ==
    [kind |-> "list",
     req |-> [route |-> "list", name |-> "", gte |-> Absent, lte |-> Absent],
     reads |-> 0,
     body |-> get_plugin_list]

(***************************************************************************)
(* The requests.                                                           *)
(***************************************************************************)
Texts == {"", "junk"} \cup {DateText(t) : t \in Times}

\* The bounds of a request with a query string: each is given, as a date, as
\* a text that is no date, or as the empty text, which the code treats as
\* it treats a missing bound.  (The requests that leave the bounds out are
\* those of DefaultsSpec.)
Params == {Given(text) : text \in Texts}

\* The names of the plugin modules; "ghost" is never registered.
Names == {NameOf(id) : id \in Ids}

\* The names asked for: the registered ones, and one that is not.
QueryNames == DOMAIN handler.plugins \cup {"ghost"}

\* WebServer.execute: the Router builds the Handler over the plugins.
WebStart ==
    /\ phase \in {"registered", "running"}
    /\ ~handler.started
    /\ handler' = [handler EXCEPT !.started = TRUE,
                                  !.plugins = HandlerPlugins(plugins)]
    /\ UNCHANGED <<config, phase, plugins, tasks, store, response>>

\* The clock reads of one request: only a missing bound reads the clock.
Clock(param) == IF Truthy(param) THEN {0} ELSE Times

PluginListHandler ==
    /\ handler.started
    /\ response' = plugin_list_handler
    /\ UNCHANGED <<config, phase, plugins, tasks, store, handler>>

PluginHandler ==
    /\ handler.started
    /\ \E name \in QueryNames, gte \in Params, lte \in Params :
        \E now1 \in Clock(gte), now2 \in Clock(lte) :
            response' = plugin_handler(name, gte, lte, now1, now2)
    /\ UNCHANGED <<config, phase, plugins, tasks, store, handler>>

PluginsHandler ==
    /\ handler.started
    /\ \E gte \in Params, lte \in Params :
        \E now1 \in Clock(gte), now2 \in Clock(lte) :
            response' = plugins_handler(gte, lte, now1, now2)
    /\ UNCHANGED <<config, phase, plugins, tasks, store, handler>>

\* The answer leaves for the client.
Respond ==
    /\ response # NoResponse
    /\ response' = NoResponse
    /\ UNCHANGED <<config, phase, plugins, tasks, store, handler>>

\* A handler runs from the request to its answer without suspending: nothing
\* else runs until the answer has left.
WebNext ==
    \/ response = NoResponse /\ Next
    \/ response = NoResponse /\ WebStart
    \/ response = NoResponse /\ PluginListHandler
    \/ response = NoResponse /\ PluginHandler
    \/ response = NoResponse /\ PluginsHandler
    \/ Respond

\* The deployments the web layer is explored over: the plugin that stores
\* samples, when configured, is the only plugin.
WebConfigs ==
    { cfg \in Configs : \A i \in DOMAIN cfg : cfg[i] = "disk" => DOMAIN cfg = {i} }

WebInit == Init /\ config \in WebConfigs

\* The registry, the scheduler and the store, with the web layer serving.
WebSpec == WebInit /\ [][WebNext]_vars

(***************************************************************************)
(* The same, with the requests that carry no query string: every bound is  *)
(* missing and both are resolved from the clock.                           *)
(***************************************************************************)
PluginHandlerDefaults ==
    /\ handler.started
    /\ \E name \in QueryNames : \E now1 \in Clock(Absent), now2 \in Clock(Absent) :
            response' = plugin_handler(name, Absent, Absent, now1, now2)
    /\ UNCHANGED <<config, phase, plugins, tasks, store, handler>>

PluginsHandlerDefaults ==
    /\ handler.started
    /\ \E now1 \in Clock(Absent), now2 \in Clock(Absent) :
            response' = plugins_handler(Absent, Absent, now1, now2)
    /\ UNCHANGED <<config, phase, plugins, tasks, store, handler>>

DefaultsNext ==
    \/ response = NoResponse /\ Next
    \/ response = NoResponse /\ WebStart
    \/ response = NoResponse /\ PluginListHandler
    \/ response = NoResponse /\ PluginHandlerDefaults
    \/ response = NoResponse /\ PluginsHandlerDefaults
    \/ Respond

DefaultsSpec == WebInit /\ [][DefaultsNext]_vars

(***************************************************************************)
(* Claims about the web layer.                                             *)
(***************************************************************************)
Unparsable(param) == param.present /\ ~CanParse(param.text)

IsQuery(r) == r.kind # "none" /\ r.req.route \in {"plugin", "all"}

\* The chart data a response carries, with the plugin each belongs to.
LogsOf(r) ==
    CASE r.kind = "plugin" -> {[name |-> r.req.name, data |-> r.body.data]}
      [] r.kind = "all" ->
            {[name |-> n, data |-> r.body.data[n].data] : n \in DOMAIN r.body.data}
      [] OTHER -> {}

Registered(name) == plugins[handler.plugins[name]]

GroupsOf(plugin) == {plugin.fields[i].name : i \in DOMAIN plugin.fields}

MetricsOf(plugin, k) ==
    plugin.fields[CHOOSE i \in DOMAIN plugin.fields : plugin.fields[i].name = k].metrics

\* The persisted records of a model that lie inside a window, ends included.
Inside(recs, w) ==
    {i \in DOMAIN recs : w[1] <= recs[i].created_at /\ recs[i].created_at <= w[2]}

Injective(f) == \A i, j \in DOMAIN f : i # j => f[i] # f[j]

\* C7: a query with an explicitly given but unparsable gte or lte always
\* fails with {ok: false, reason}, on GET /plugins/{name} and on
\* GET /plugins/all, and never answers from the default bounds.
C7_UnparsableBoundFails ==
    (IsQuery(response) /\ (Unparsable(response.req.gte) \/ Unparsable(response.req.lte)))
        => response.kind = "error"

\* C8: a plugin name that is not registered always yields a not-found
\* error, never a crash: get_plugin_logs raises KeyError, and
\* GET /plugins/{name} answers {ok: false, reason} without reading the
\* store, whatever the bounds.
C8_UnregisteredIsNotFound ==
    /\ (response.kind # "none" /\ response.req.route = "plugin"
            /\ response.req.name \notin DOMAIN handler.plugins)
        => /\ response.kind = "error"
           /\ response.body = [ok |-> FALSE, reason |-> "Plugin does not exist."]
           /\ response.reads = 0
    /\ (handler.started /\ response = NoResponse) =>
        \A name \in Names \ DOMAIN handler.plugins :
            \A gte, lte \in Times :
                get_plugin_logs(name, gte, lte).raised = "KeyError"

C8_Witness ==
    /\ response.kind = "error"
    /\ response.req.route = "plugin"
    /\ response.req.name \notin DOMAIN handler.plugins
    /\ response.req.gte = Given("junk")
    /\ DOMAIN handler.plugins # {}

\* C9: round trip over the store.  A logs query with bounds gte and lte
\* returns, for each field group, exactly one row per persisted sample with
\* gte <= created_at <= lte, no row for a sample outside, none twice and
\* none missing.
C9_RoundTrip ==
    \A l \in LogsOf(response) :
        /\ DOMAIN l.data = GroupsOf(Registered(l.name))
        /\ \A k \in DOMAIN l.data :
            LET recs == store[ModelName(l.name, k)]
                rows == l.data[k].data
                in == Inside(recs, response.window)
            IN /\ Len(rows) = Cardinality(in)
               /\ \E f \in [DOMAIN rows -> in] :
                    /\ Injective(f)
                    /\ \A j \in DOMAIN rows :
                        rows[j] = Row(recs[f[j]], MetricsOf(Registered(l.name), k))

C9_Witness ==
    \E l \in LogsOf(response) : \E k \in DOMAIN l.data :
        LET recs == store[ModelName(l.name, k)] IN
        /\ response.req.gte.present /\ response.req.lte.present
        /\ Len(l.data[k].data) = 1
        /\ Len(recs) = 2
        /\ \E i \in DOMAIN recs : recs[i].created_at = response.window[2]

\* C10: the rows of a field group are in ascending order of created_at,
\* in whatever order the samples were persisted.
C10_RowsAscending ==
    \A l \in LogsOf(response) : \A k \in DOMAIN l.data :
        LET recs == store[ModelName(l.name, k)]
            rows == l.data[k].data
        IN /\ \A i, j \in DOMAIN rows : i < j => rows[i][1] <= rows[j][1]
           /\ \E f \in [DOMAIN rows -> Inside(recs, response.window)] :
                /\ Injective(f)
                /\ \A i, j \in DOMAIN rows :
                    i < j => recs[f[i]].created_at <= recs[f[j]].created_at
                /\ \A j \in DOMAIN rows :
                    rows[j] = Row(recs[f[j]], MetricsOf(Registered(l.name), k))

C10_Witness ==
    \E l \in LogsOf(response) : \E k \in DOMAIN l.data :
        LET recs == store[ModelName(l.name, k)]
            rows == l.data[k].data
        IN /\ Len(rows) = 2
           /\ Len(recs) = 2
           /\ recs[1].created_at > recs[2].created_at
           /\ rows[1][1] < rows[2][1]

DeclaredNames(id, k) ==
    LET g == FieldsOf(id)[CHOOSE i \in DOMAIN FieldsOf(id) : FieldsOf(id)[i].name = k]
    IN [i \in DOMAIN g.metrics |-> g.metrics[i][1]]

DeclaredHint(id, k) ==
    IF k \in DOMAIN FieldTypesOf(id) THEN FieldTypesOf(id)[k] ELSE "line"

\* C12: for every field group of a queried plugin, legends is "created"
\* followed by the group's metric names in declaration order, type is the
\* group's rendering hint, and every row is as long as legends, holds at
\* position 0 the epoch seconds of its sample's created_at and at position
\* i the sample's value for the metric legends names at i.
C12_ChartShape ==
    \A l \in LogsOf(response) :
        LET cls == Registered(l.name).cls IN
        /\ DOMAIN l.data = {FieldsOf(cls)[i].name : i \in DOMAIN FieldsOf(cls)}
        /\ \A k \in DOMAIN l.data :
            LET chart == l.data[k]
                recs == store[ModelName(l.name, k)]
            IN /\ chart.legends = <<"created">> \o DeclaredNames(cls, k)
               /\ chart.type = DeclaredHint(cls, k)
               /\ \A j \in DOMAIN chart.data :
                    LET row == chart.data[j] IN
                    /\ Len(row) = Len(chart.legends)
                    /\ \E s \in DOMAIN recs :
                        /\ row[1] * Resolution <= recs[s].created_at
                        /\ recs[s].created_at < (row[1] + 1) * Resolution
                        /\ \A i \in 2..Len(row) :
                            row[i] = recs[s].items[chart.legends[i]]

C12_Witness ==
    /\ response.kind = "plugin"
    /\ "usage" \in DOMAIN response.body.data
    /\ response.body.data["usage"].type = "line"
    /\ response.body.data["usage"].legends = <<"created", "free", "used">>
    /\ response.body.data["io"].type = "stack"
    /\ \E j \in DOMAIN response.body.data["usage"].data :
            response.body.data["usage"].data[j] = <<0, 500, 1500>>
    /\ \E i \in DOMAIN store[<<"disk", "usage">>] :
            store[<<"disk", "usage">>][i].created_at = 1

(***************************************************************************)
(* Claims about registration and the plugin's state.                       *)
(***************************************************************************)
\* C13: registration is per entry: once register_plugins has run, every
\* configured identifier that can be resolved is registered, whether it is
\* listed before or after one that cannot.
C13_RegistrationPerEntry ==
    phase # "configured" =>
        \A i \in DOMAIN config :
            Resolvable(config[i]) =>
                \E p \in DOMAIN plugins : plugins[p].cls = config[i]

\* C14: a plugin whose name or description is empty (properties fails on
\* it) is never used: it is given no scheduler task, runs no cycle, and is
\* not listed by GET /plugins/list.
C14_EmptyIdentityNeverUsed ==
    /\ \A t \in DOMAIN tasks : properties(PluginOf(t)).raised = ""
    /\ \A p \in DOMAIN plugins :
            properties(plugins[p]).raised # "" =>
                /\ plugins[p].last_executed_at = None
                /\ plugins[p].last_executed_result = "None"
    /\ response.kind = "list" =>
            \A n \in DOMAIN response.body :
                n # "" /\ response.body[n].description # ""

\* C15: the field schema of a plugin stays what construction left: after
\* any sequence of cycles, data_form calls, listings and logs queries, the
\* plugin has the field groups its class declares, each with its metrics
\* (name, kind) in declaration order, and data_form hands out containers
\* of exactly that shape.
C15_SchemaFrozen ==
    \A p \in DOMAIN plugins :
        LET declared == FieldsOf(plugins[p].cls) IN
        /\ plugins[p].fields = declared
        /\ DOMAIN data_form(plugins[p]) =
                {declared[i].name : i \in DOMAIN declared}
        /\ \A i \in DOMAIN declared :
            LET form == data_form(plugins[p])[declared[i].name] IN
            /\ DOMAIN form = {declared[i].metrics[j][1] :
                                j \in DOMAIN declared[i].metrics}
            /\ \A j \in DOMAIN declared[i].metrics :
                    form[declared[i].metrics[j][1]].kind =
                        declared[i].metrics[j][2]

C15_Witness ==
    /\ response.kind = "plugin"
    /\ response.req.name = "disk"
    /\ \E k \in DOMAIN response.body.data : Len(response.body.data[k].data) = 2
    /\ \E p \in DOMAIN plugins :
        /\ plugins[p].cls = "disk"
        /\ plugins[p].last_executed_result = "False"
        /\ plugins[p].fields = FieldsOf("disk")

\* What a response reports of each plugin it lists.
DetailsOf(r) ==
    CASE r.kind = "list" -> r.body
      [] r.kind = "plugin" ->
            [n \in {r.req.name} |->
                [lastExecutedAt |-> r.body.lastExecutedAt,
                 lastExecutedResult |-> r.body.lastExecutedResult]]
      [] r.kind = "all" -> r.body.data
      [] OTHER -> << >>

\* No cycle of plugin p has started.
NotStarted(p) ==
    \A t \in DOMAIN tasks : tasks[t].plugin = p => tasks[t].outcome = "none"

\* C16: last_executed_result is present only if last_executed_at is; both
\* are absent until the first cycle of the plugin starts, and a listing
\* made in that period reports both as absent.
C16_ResultOnlyWithTime ==
    /\ \A p \in DOMAIN plugins :
        /\ plugins[p].last_executed_result # "None" =>
                plugins[p].last_executed_at # None
        /\ NotStarted(p) =>
                /\ plugins[p].last_executed_at = None
                /\ plugins[p].last_executed_result = "None"
    /\ \A n \in DOMAIN DetailsOf(response) :
        LET d == DetailsOf(response)[n] IN
        /\ d.lastExecutedResult # "None" => d.lastExecutedAt # None
        /\ NotStarted(handler.plugins[n]) =>
                /\ d.lastExecutedAt = None
                /\ d.lastExecutedResult = "None"

C16_Witness ==
    /\ response.kind = "list"
    /\ phase = "running"
    /\ \E n, m \in DOMAIN response.body :
        /\ NotStarted(handler.plugins[n])
        /\ response.body[n].lastExecutedAt = None
        /\ response.body[n].lastExecutedResult = "None"
        /\ response.body[m].lastExecutedAt = 0
        /\ response.body[m].lastExecutedResult = "False"

\* C17: the pair (lastExecutedAt, lastExecutedResult) a response reports
\* for a plugin comes from one cycle.  While a cycle of the plugin is in
\* flight (its start time recorded, its provider not yet back) the result
\* the plugin holds is that of an earlier cycle, so none may be reported
\* next to the new start time.
C17_PairFromOneCycle ==
    \A n \in DOMAIN DetailsOf(response) :
        \A t \in DOMAIN tasks :
            (tasks[t].plugin = handler.plugins[n] /\ tasks[t].outcome = "running")
                => DetailsOf(response)[n].lastExecutedResult = "None"

(***************************************************************************)
(* WebServer: the middlewares around the handlers.  The requests of        *)
(* WebSpec are those the middlewares hand through unchanged (no key        *)
(* configured, peer address unknown, no callback); here the requests carry *)
(* a peer address, a key and a callback.                                   *)
(***************************************************************************)
\* Response(data): the JSON response of a dict; jsonp names the callback
\* wrapped around the body, if any.
Response(data) == [status |-> 200, body |-> data, jsonp |-> ""]

\* What the HTTP server answers when a middleware or a handler raises.
ServerError(exception) ==
    [status |-> 500, body |-> [exception |-> exception], jsonp |-> ""]

\* The networks config['server']['allows'] can name, as the hosts in them.
PrivateNet == {"10.0.0.1", "10.0.0.2"}

LocalNet6 == {"::1"}

Whitelists == {{}, {PrivateNet}, {PrivateNet, LocalNet6}}

ServerKeys == {"", "s3cret"}

\* transport.get_extra_info('peername'): None (written as the empty tuple),
\* (host, port) of an IPv4 peer, (host, port, flowinfo, scope_id) of an IPv6
\* peer.
NoPeername == << >>

Peernames ==
    {NoPeername, <<"10.0.0.1", 51000>>, <<"192.0.2.9", 51000>>,
     <<"::1", 51000, 0, 0>>, <<"2001:db8::9", 51000, 0, 0>>}

HostOf(peername) == peername[1]

KeyParams == {Absent, Given(""), Given("s3cret"), Given("wrong")}

CallbackParams == {Absent, Given(""), Given("cb")}

\* req.GET.get(k, '')
GetOr(param, default) == IF param.present THEN param.text ELSE default

\* jsonp_middleware: the handler runs, then its body is wrapped in the
\* callback when one is given.
jsonp_middleware(req, data) ==
    IF Truthy(req.callback)
    THEN [data EXCEPT !.jsonp = req.callback.text]
    ELSE data

\* The key check refusing only a key that was sent.
authenticate_middleware_given_only(key, req, data) ==
    IF key # "" /\ req.key.present /\ key # req.key.text
    THEN Response([ok |-> FALSE, reason |-> "Invalid authentication credential."])
    ELSE data

\* authenticate_middleware: the inner handler has run and answered data;
\* the answer is replaced when a key is set and differs from the given one.
authenticate_middleware(key, req, data) ==
    IF key # "" /\ key # GetOr(req.key, "")
    THEN Response([ok |-> FALSE, reason |-> "Invalid authentication credential."])
    ELSE data

\* whitelist_middleware: inner is the answer of the rest of the chain and
\* what ran to give it; it is only run when the request is passed on.
whitelist_middleware(whitelist, req, inner) ==
    IF req.peername = NoPeername THEN inner
    ELSE IF Len(req.peername) # 2
    THEN [ran |-> << >>, data |-> ServerError("ValueError")]
    ELSE IF ~\E white \in whitelist : HostOf(req.peername) \in white
    THEN [ran |-> << >>,
          data |-> Response([ok |-> FALSE,
                             reason |-> "Your ipaddress is not in the whitelist of allowed IPs."])]
    ELSE inner

\* The application of execute(): aiohttp wraps the routed handler in the
\* listed middlewares from the last to the first, so whitelist is around
\* authenticate, which is around jsonp, which is around the handler, whose
\* answer is result.
Application(req, result) ==
    whitelist_middleware(handler.whitelist, req,
        [ran |-> <<"authenticate", "jsonp", "handler">>,
         data |-> authenticate_middleware(handler.key, req,
                    jsonp_middleware(req, Response(result.body)))])

\* One request through the application.
Serve ==
    /\ handler.started
    /\ \E route \in {"list", "plugin", "all"},
          name \in QueryNames,
          gte \in {Given("junk"), Given(DateText(0))},
          peername \in Peernames, key \in KeyParams, callback \in CallbackParams :
        LET lte == Given(DateText(0))
            req == [route |-> route, name |-> IF route = "plugin" THEN name ELSE "",
                    gte |-> gte, lte |-> lte,
                    peername |-> peername, key |-> key, callback |-> callback]
            result == CASE route = "list" -> plugin_list_handler
                        [] route = "plugin" -> plugin_handler(name, gte, lte, 0, 0)
                        [] route = "all" -> plugins_handler(gte, lte, 0, 0)
            out == Application(req, result)
        IN response' = [kind |-> "served", req |-> req, result |-> result,
                        ran |-> out.ran, sent |-> out.data]
    /\ UNCHANGED <<config, phase, plugins, tasks, store, handler>>

ServerNext ==
    \/ response = NoResponse /\ RegisterPlugins
    \/ response = NoResponse /\ WebStart
    \/ response = NoResponse /\ Serve
    \/ Respond

\* WebServer.__init__ reads the key and the allowed networks of the
\* configuration.
ServerInit ==
    /\ config \in WebConfigs
    /\ phase = "configured"
    /\ plugins = << >>
    /\ tasks = << >>
    /\ store = [m \in AllModels |-> << >>]
    /\ handler \in {[NoHandler EXCEPT !.key = k, !.whitelist = w] :
                        k \in ServerKeys, w \in Whitelists}
    /\ response = NoResponse

\* The web server with its middlewares, over the registered plugins.
ServerSpec == ServerInit /\ [][ServerNext]_vars

(***************************************************************************)
(* Claims about the middlewares.                                           *)
(***************************************************************************)
InvalidCredential ==
    Response([ok |-> FALSE, reason |-> "Invalid authentication credential."])

NotInWhitelist ==
    Response([ok |-> FALSE,
              reason |-> "Your ipaddress is not in the whitelist of allowed IPs."])

\* A request to a server with a key, whose key parameter is missing or is
\* another text.
WrongKey(r) ==
    /\ r.kind = "served"
    /\ handler.key # ""
    /\ (~r.req.key.present \/ r.req.key.text # handler.key)

\* C18, as claimed: with a key configured, every request whose key is
\* missing or differs is answered {ok: false, reason: 'Invalid
\* authentication credential.'}, unwrapped, whatever the handler returned
\* and whether or not a callback was given.
C18_WrongKeyRefused == WrongKey(response) => response.sent = InvalidCredential

\* C18, amended: with a key configured, every request that the allow-list
\* middleware passes on and whose key is missing or differs is answered
\* {ok: false, reason: 'Invalid authentication credential.'}, unwrapped,
\* and never the handler's payload, whatever the handler returned and
\* whether or not a callback was given.
C18_WrongKeyRefusedOncePassedOn ==
    (WrongKey(response) /\ response.ran # << >>) =>
        /\ response.sent = InvalidCredential
        /\ response.sent.body # response.result.body

C18_Witness ==
    /\ WrongKey(response)
    /\ response.req.key = Absent
    /\ response.req.callback = Given("cb")
    /\ response.req.peername = <<"10.0.0.1", 51000>>
    /\ response.result.kind = "plugin"
    /\ response.ran = <<"authenticate", "jsonp", "handler">>
    /\ response.sent = InvalidCredential

\* C19: a request is denied by the allow-list middleware (answered
\* {ok: false, reason} with neither the authentication middleware nor a
\* handler run) if and only if its peer address is known and lies in none
\* of the allowed networks; a request whose peer address is unknown is
\* passed on.
C19_DeniedIffOutside ==
    response.kind = "served" =>
        LET known == response.req.peername # NoPeername
            outside == known /\ \A white \in handler.whitelist :
                                    HostOf(response.req.peername) \notin white
            denied == response.sent = NotInWhitelist /\ response.ran = << >>
        IN /\ denied <=> outside
           /\ ~known => response.ran = <<"authenticate", "jsonp", "handler">>

====
